---- MODULE Spec2Model ----
(***************************************************************************)
(* Contributor registry automation (kpj2006/ContributorAutomation).        *)
(*                                                                         *)
(* Spec        : ContributorManager invocations (create_contributor,       *)
(*               add_pr_to_contributor) running against one remote git     *)
(*               registry, each through the working copy at the fixed      *)
(*               path <tmp>/contributor_gist_repo of its host.             *)
(* FairSpec    : Spec with weak fairness of every step.                    *)
(* CheckerSpec : one call of check_contributor_exists or of                *)
(*               check_promotion_eligibility reading a registry record.    *)
(* ScanSpec    : one call of check_for_response_in_pr scanning the         *)
(*               comment thread of a pull request.                         *)
(* UtilSpec    : one call of a function of utils.py (sanitize_filename,    *)
(*               the two validators, parse_contributor_comment).           *)
(***************************************************************************)
EXTENDS Integers, Sequences, FiniteSets, TLC

\* Keys of the TOML documents, of the result dictionaries and of the records
\* of this model, in the order every record below lists its fields.
FieldNames ==
    [absent |-> "", avg_lines |-> "", avg_lines_changed |-> "",
     blocked |-> "", body |-> "", comment_id |-> "", contributor |-> "",
     current_role |-> "", discord_id |-> "", discord_valid |-> "",
     eligible_for_promotion |-> "", empty |-> "", error |-> "",
     exists |-> "", filepath |-> "", files |-> "", github_username |-> "",
     has_response |-> "", head |-> "", id |-> "", index |-> "",
     is_blocked |-> "", kind |-> "", labels |-> "", lines_changed |-> "",
     login |-> "", malformed |-> "", min_avg_lines |-> "", nodata |-> "",
     nodir |-> "", none |-> "", origin |-> "", parent |-> "",
     pr_data |-> "", pr_number |-> "", pr_title |-> "",
     pull_requests |-> "", repo_name |-> "", repository |-> "",
     schema_version |-> "", stats |-> "", status |-> "", threshold |-> "",
     title |-> "", toml_data |-> "", total_prs |-> "", tree |-> "",
     user_id |-> "", username |-> "", valid |-> "", wallet |-> "",
     wallet_address |-> "", wallet_valid |-> ""]

VARIABLES
    commits,      \* every git commit ever made: <<[parent, tree]>>
    remoteHead,   \* commit id the remote registry points at
    wc,           \* host -> the directory <tmp>/contributor_gist_repo there
    host,         \* process -> host it runs on
    pc,           \* process -> position inside the current method call
    repo_dir,     \* process -> self.repo_dir is set (not None)
    op,           \* process -> arguments of the current method call
    data,         \* process -> local variable contributor_data
    result,       \* process -> what the current call returned
    surfaced,     \* process -> text of the error surfaced by the call
    clonedAt,     \* process -> remote head this call cloned (0: no clone)
    prevFailed,   \* process -> its previous call wrote locally and failed
    ncalls,       \* number of method calls started so far
    chkPc,        \* position inside check_contributor_exists / its caller
    chkAction,    \* which function of the checker was called
    chkFile,      \* content of the author's record file in the registry
    chkCfg,       \* config['promotion']
    gistDir,      \* the TemporaryDirectory of check_contributor_exists
    cloneOutcome, \* how clone_gist_repo ended
    existsResult, \* what check_contributor_exists returned
    promoResult,  \* what check_promotion_eligibility returned
    comments,     \* the PR's issue comments, oldest first
    prAuthor,     \* pr_author
    scanPc,       \* position inside check_for_response_in_pr
    scanList,     \* reversed(list(comments))
    scanPos,      \* index of the loop in scanList
    scanResult,   \* what check_for_response_in_pr returned
    utilPc,       \* a function of utils.py is about to be called / returned
    utilFn,       \* the function of utils.py that is called
    utilArg,      \* its argument
    utilRet       \* what it returned

mgrVars == <<commits, remoteHead, wc, host, pc, repo_dir, op, data, result,
             surfaced, clonedAt, prevFailed, ncalls>>

chkVars == <<chkPc, chkAction, chkFile, chkCfg, gistDir, cloneOutcome,
             existsResult, promoResult>>

scanVars == <<comments, prAuthor, scanPc, scanList, scanPos, scanResult>>

utilVars == <<utilPc, utilFn, utilArg, utilRet>>

vars == <<mgrVars, chkVars, scanVars, utilVars>>

----------------------------------------------------------------------------
(* Bounds *)

\* total number of create_contributor / add_pr_to_contributor calls
MaxCalls == 2

Procs == {"p1", "p2"}
Hosts == {"h1", "h2"}

----------------------------------------------------------------------------
(* utils.py : sanitize_filename *)

\* the letters that occur in the inputs of this model
AsciiLower == {"a", "b", "c", "d", "e", "f", "i", "l", "o", "r", "s", "t",
               "w", "x"}
AsciiUpper == {"A", "B", "C", "D", "E", "F", "I", "L", "O", "R", "S", "T",
               "W", "X"}
AsciiDigit == {"0", "1", "2", "3", "4", "5", "6", "7", "8", "9"}

\* characters outside ASCII are written by their code point: E-acute,
\* e-acute, I with dot above, combining dot above, superscript two
NonAscii == {"U+00C9", "U+00E9", "U+0130", "U+0307", "U+00B2"}

\* the characters outside ASCII for which str.isalnum() is True
UnicodeAlnum == {"U+00C9", "U+00E9", "U+0130", "U+00B2"}

\* str.isalnum() of one character
IsAlnum(c) == c \in AsciiLower \cup AsciiUpper \cup AsciiDigit \cup UnicodeAlnum

\* str.lower() of one character
LowerChar(c) ==
    CASE c = "A" -> "a" [] c = "B" -> "b" [] c = "C" -> "c" [] c = "D" -> "d"
      [] c = "E" -> "e" [] c = "F" -> "f" [] c = "I" -> "i" [] c = "L" -> "l"
      [] c = "O" -> "o" [] c = "R" -> "r" [] c = "S" -> "s" [] c = "T" -> "t"
      [] c = "W" -> "w" [] c = "X" -> "x" [] c = "U+00C9" -> "U+00E9"
      [] OTHER -> c

\* str.lower() of a one-character string: U+0130 becomes two characters
LowerOne(c) == IF c = "U+0130" THEN <<"i", "U+0307">> ELSE << LowerChar(c) >>

RECURSIVE Lower(_)
\* str.lower()
Lower(s) == IF s = <<>> THEN <<>> ELSE LowerOne(Head(s)) \o Lower(Tail(s))

KeepChar(c) == IsAlnum(c) \/ c \in {"-", "_"}

sanitize_filename(username) == Lower(SelectSeq(username, KeepChar))

----------------------------------------------------------------------------
(* Inputs of the manager *)

Usernames == { <<"A", "!">>, <<"b">> }

\* config['gist']['contributor_file_pattern'].format(username=...)
FileOf(username) == sanitize_filename(username)

FileNames == { FileOf(u) : u \in Usernames }

PRData == { [labels |-> <<>>, lines_changed |-> 10 * n, pr_number |-> n,
             pr_title |-> "t", repo_name |-> "org/repo"] : n \in 1..2 }

GistPat == "PAT"

DiscordIds == {"123456789012345678"}
Wallets == {"0x1234567890abcdef1234567890abcdef12345678"}

\* config['gist']['schema_version']
SchemaVersion == 1

NoFile == [absent |-> TRUE]
NoDir  == [nodir |-> TRUE]
NoData == [nodata |-> TRUE]
NoOp   == [kind |-> "none"]

EmptyTree == [f \in FileNames |-> NoFile]

----------------------------------------------------------------------------
(* git *)

RECURSIVE IsAncestor(_, _)
\* commit a is b or an ancestor of b
IsAncestor(a, b) ==
    IF b = 0 THEN FALSE
    ELSE IF a = b THEN TRUE
    ELSE IsAncestor(a, commits[b].parent)

\* the working copy a successful `git clone` leaves
FreshClone == [files |-> commits[remoteHead].tree,
               head |-> remoteHead,
               index |-> commits[remoteHead].tree,
               origin |-> remoteHead]

\* gist_url.replace('https://', f'https://{gist_pat}@')
GistUrl == <<"https://", "gist.github.com/registry.git">>
AuthUrl(pat) == <<"https://", pat, "@">> \o Tail(GistUrl)

\* what a failing `git clone` may write to stderr
CloneStderr(pat) ==
    { <<"fatal: Authentication failed for ", "https://", "gist.github.com/registry.git">>,
      <<"fatal: unable to access ">> \o AuthUrl(pat) }

DestExistsStderr == <<"fatal: destination path already exists and is not an empty directory">>

----------------------------------------------------------------------------
(* contributor_manager.py : the record documents *)

PrEntry(pr_data) ==
    [labels |-> pr_data.labels,
     lines_changed |-> pr_data.lines_changed,
     pr_number |-> pr_data.pr_number,
     repository |-> pr_data.repo_name,
     title |-> pr_data.pr_title]

\* contributor_data of create_contributor
NewContributorData(username, discord_id, wallet, pr_data) ==
    [contributor |-> [discord_id |-> discord_id,
                      github_username |-> username,
                      total_prs |-> 1,
                      wallet_address |-> wallet],
     pull_requests |-> << PrEntry(pr_data) >>,
     schema_version |-> SchemaVersion]

\* (mutation of AppendPr: the counter is left as it was loaded)
AppendPrStaleCounter(doc, pr_data) ==
    [doc EXCEPT !.pull_requests = Append(doc.pull_requests, PrEntry(pr_data))]

\* contributor_data of add_pr_to_contributor after the append
AppendPr(doc, pr_data) ==
    LET prs == Append(doc.pull_requests, PrEntry(pr_data))
    IN [doc EXCEPT !.pull_requests = prs,
                   !.contributor = [@ EXCEPT !.total_prs = Len(prs)]]

----------------------------------------------------------------------------
(* Initial state: a registry holding no record, or the record an earlier   *)
(* create_contributor published; no checkout on any host                   *)

InitialTrees ==
    { EmptyTree }
    \cup { [EmptyTree EXCEPT ![FileOf(<<"b">>)] =
              NewContributorData(<<"b">>, d, w, pr)] :
            d \in DiscordIds, w \in Wallets, pr \in {x \in PRData : x.pr_number = 1} }

MgrInit ==
    /\ \E t \in InitialTrees : commits = << [parent |-> 0, tree |-> t] >>
    /\ remoteHead = 1
    /\ wc = [h \in Hosts |-> NoDir]
    /\ host \in { f \in [Procs -> Hosts] : f["p1"] = "h1" }
    /\ pc = [p \in Procs |-> "idle"]
    /\ repo_dir = [p \in Procs |-> FALSE]
    /\ op = [p \in Procs |-> NoOp]
    /\ data = [p \in Procs |-> NoData]
    /\ result = [p \in Procs |-> "none"]
    /\ surfaced = [p \in Procs |-> <<>>]
    /\ clonedAt = [p \in Procs |-> 0]
    /\ prevFailed = [p \in Procs |-> FALSE]
    /\ ncalls = 0

\* the manager is not running
MgrOff ==
    /\ commits = << [parent |-> 0, tree |-> EmptyTree] >>
    /\ remoteHead = 1
    /\ wc = [h \in Hosts |-> NoDir]
    /\ host = [p \in Procs |-> "h1"]
    /\ pc = [p \in Procs |-> "off"]
    /\ repo_dir = [p \in Procs |-> FALSE]
    /\ op = [p \in Procs |-> NoOp]
    /\ data = [p \in Procs |-> NoData]
    /\ result = [p \in Procs |-> "none"]
    /\ surfaced = [p \in Procs |-> <<>>]
    /\ clonedAt = [p \in Procs |-> 0]
    /\ prevFailed = [p \in Procs |-> FALSE]
    /\ ncalls = 0

\* the checker is not running
ChkOff ==
    /\ chkPc = "off"
    /\ chkAction = "none"
    /\ chkFile = NoFile
    /\ chkCfg = NoData
    /\ gistDir = NoDir
    /\ cloneOutcome = "none"
    /\ existsResult = NoData
    /\ promoResult = NoData

\* the response scanner is not running
ScanOff ==
    /\ comments = <<>>
    /\ prAuthor = <<>>
    /\ scanPc = "off"
    /\ scanList = <<>>
    /\ scanPos = 0
    /\ scanResult = NoData

\* no function of utils.py is being exercised on its own
UtilOff ==
    /\ utilPc = "off"
    /\ utilFn = "none"
    /\ utilArg = <<>>
    /\ utilRet = NoData

Init == MgrInit /\ ChkOff /\ ScanOff /\ UtilOff

----------------------------------------------------------------------------
(* contributor_manager.py : ContributorManager *)

HostDir(p) == wc[host[p]]

TreeOf(c) == commits[c].tree

\* the method returns (or raises): res is "True", "False" or "raised"
Finish(p, res, text) ==
    /\ pc' = [pc EXCEPT ![p] = "done"]
    /\ result' = [result EXCEPT ![p] = res]
    /\ surfaced' = [surfaced EXCEPT ![p] = text]
    /\ prevFailed' = [prevFailed EXCEPT ![p] =
                        res # "True" /\ pc[p] \in {"add", "commit", "push"}]
    /\ data' = [data EXCEPT ![p] = NoData]

\* __init__: a new manager object (a new invocation of the script)
NewManager(p) ==
    /\ UNCHANGED <<chkVars, scanVars, utilVars>>
    /\ pc[p] = "done"
    /\ pc' = [pc EXCEPT ![p] = "idle"]
    /\ repo_dir' = [repo_dir EXCEPT ![p] = FALSE]
    /\ UNCHANGED <<commits, remoteHead, wc, host, op, data, result, surfaced,
                   clonedAt, prevFailed, ncalls>>

\* first statements of a method: `if not self.repo_dir: self.clone_gist()`,
\* and clone_gist sets self.repo_dir before it deletes and clones
Enter(p, call, doc) ==
    /\ UNCHANGED <<chkVars, scanVars, utilVars>>
    /\ pc[p] \in {"idle", "done"}
    /\ ncalls < MaxCalls
    /\ ncalls' = ncalls + 1
    /\ op' = [op EXCEPT ![p] = call]
    /\ data' = [data EXCEPT ![p] = doc]
    /\ result' = [result EXCEPT ![p] = "none"]
    /\ surfaced' = [surfaced EXCEPT ![p] = <<>>]
    /\ clonedAt' = [clonedAt EXCEPT ![p] = 0]
    /\ repo_dir' = [repo_dir EXCEPT ![p] = TRUE]
    /\ pc' = [pc EXCEPT ![p] =
                IF ~repo_dir[p] THEN "rmtree"
                ELSE IF call.kind = "add_pr" THEN "load" ELSE "write"]
    /\ UNCHANGED <<commits, remoteHead, wc, host, prevFailed>>

\* create_contributor(username, discord_id, wallet, pr_data): entry and the
\* construction of contributor_data
create_contributor(p, username, discord_id, wallet, pr_data) ==
    Enter(p, [kind |-> "create", pr_data |-> pr_data, username |-> username],
          NewContributorData(username, discord_id, wallet, pr_data))

\* add_pr_to_contributor(username, pr_data): entry
add_pr_to_contributor(p, username, pr_data) ==
    Enter(p, [kind |-> "add_pr", pr_data |-> pr_data, username |-> username],
          NoData)

\* clone_gist: `if os.path.exists(self.repo_dir): shutil.rmtree(self.repo_dir)`
RmTree(p) ==
    /\ UNCHANGED <<chkVars, scanVars, utilVars>>
    /\ pc[p] = "rmtree"
    /\ wc' = [wc EXCEPT ![host[p]] = NoDir]
    /\ pc' = [pc EXCEPT ![p] = "clone"]
    /\ UNCHANGED <<commits, remoteHead, host, repo_dir, op, data, result,
                   surfaced, clonedAt, prevFailed, ncalls>>

\* clone_gist: `git clone auth_url repo_dir` succeeds
GitCloneOk(p) ==
    /\ UNCHANGED <<chkVars, scanVars, utilVars>>
    /\ pc[p] = "clone"
    /\ HostDir(p) = NoDir
    /\ wc' = [wc EXCEPT ![host[p]] = FreshClone]
    /\ clonedAt' = [clonedAt EXCEPT ![p] = remoteHead]
    /\ pc' = [pc EXCEPT ![p] = IF op[p].kind = "add_pr" THEN "load" ELSE "write"]
    /\ UNCHANGED <<commits, remoteHead, host, repo_dir, op, data, result,
                   surfaced, prevFailed, ncalls>>

\* the message of the RuntimeError clone_gist raises
CloneErrorText(stderr) == <<"Failed to clone Gist: ">> \o stderr

\* clone_gist: `git clone` exits non-zero; the RuntimeError leaves the method
GitCloneFails(p) ==
    /\ UNCHANGED <<chkVars, scanVars, utilVars>>
    /\ pc[p] = "clone"
    /\ \E stderr \in (IF HostDir(p) # NoDir THEN {DestExistsStderr}
                      ELSE CloneStderr(GistPat)) :
          Finish(p, "raised", CloneErrorText(stderr))
    /\ UNCHANGED <<commits, remoteHead, wc, host, repo_dir, op, clonedAt, ncalls>>

\* clone_gist: `git clone` never exits (subprocess.run has no timeout)
GitCloneHangs(p) ==
    /\ UNCHANGED <<chkVars, scanVars, utilVars>>
    /\ pc[p] = "clone"
    /\ HostDir(p) = NoDir
    /\ pc' = [pc EXCEPT ![p] = "clone_hung"]
    /\ UNCHANGED <<commits, remoteHead, wc, host, repo_dir, op, data, result,
                   surfaced, clonedAt, prevFailed, ncalls>>

\* (mutation of Load: an absent record file is created instead of reported)
LoadOrCreate(p) ==
    /\ UNCHANGED <<chkVars, scanVars, utilVars>>
    /\ pc[p] = "load"
    /\ LET f == FileOf(op[p].username)
           w == HostDir(p)
           loaded == IF w = NoDir \/ w.files[f] = NoFile
                     THEN [NewContributorData(op[p].username, "", "", op[p].pr_data)
                             EXCEPT !.pull_requests = <<>>]
                     ELSE w.files[f]
       IN data' = [data EXCEPT ![p] = AppendPr(loaded, op[p].pr_data)]
    /\ pc' = [pc EXCEPT ![p] = "write"]
    /\ UNCHANGED <<commits, remoteHead, wc, host, repo_dir, op, result, surfaced,
                   clonedAt, prevFailed, ncalls>>

\* add_pr_to_contributor: the existence test, toml.load and the append
Load(p) ==
    /\ UNCHANGED <<chkVars, scanVars, utilVars>>
    /\ pc[p] = "load"
    /\ LET f == FileOf(op[p].username)
           w == HostDir(p)
       IN IF w = NoDir \/ w.files[f] = NoFile
          THEN Finish(p, "False", <<"Contributor file not found">>)
          ELSE /\ data' = [data EXCEPT ![p] = AppendPr(w.files[f], op[p].pr_data)]
               /\ pc' = [pc EXCEPT ![p] = "write"]
               /\ UNCHANGED <<result, surfaced, prevFailed>>
    /\ UNCHANGED <<commits, remoteHead, wc, host, repo_dir, op, clonedAt, ncalls>>

\* `with open(file_path, 'w') as f: toml.dump(contributor_data, f)`
WriteFile(p) ==
    /\ UNCHANGED <<chkVars, scanVars, utilVars>>
    /\ pc[p] = "write"
    /\ LET f == FileOf(op[p].username)
           w == HostDir(p)
       IN IF w = NoDir
          THEN /\ Finish(p, "raised", <<"No such file or directory">>)
               /\ UNCHANGED wc
          ELSE /\ wc' = [wc EXCEPT ![host[p]] = [w EXCEPT !.files[f] = data[p]]]
               /\ pc' = [pc EXCEPT ![p] = "add"]
               /\ UNCHANGED <<data, result, surfaced, prevFailed>>
    /\ UNCHANGED <<commits, remoteHead, host, repo_dir, op, clonedAt, ncalls>>

PublishErrorText == <<"Failed to commit/push: ", "Command git returned non-zero exit status">>

\* `git -C repo_dir add filename`
GitAdd(p) ==
    /\ UNCHANGED <<chkVars, scanVars, utilVars>>
    /\ pc[p] = "add"
    /\ LET f == FileOf(op[p].username)
           w == HostDir(p)
       IN IF w = NoDir \/ (w.files[f] = NoFile /\ w.index[f] = NoFile)
          THEN /\ Finish(p, "False", PublishErrorText)
               /\ UNCHANGED wc
          ELSE /\ wc' = [wc EXCEPT ![host[p]] = [w EXCEPT !.index[f] = w.files[f]]]
               /\ pc' = [pc EXCEPT ![p] = "commit"]
               /\ UNCHANGED <<data, result, surfaced, prevFailed>>
    /\ UNCHANGED <<commits, remoteHead, host, repo_dir, op, clonedAt, ncalls>>

\* `git -C repo_dir commit -m ...`: fails when nothing is staged
GitCommit(p) ==
    /\ UNCHANGED <<chkVars, scanVars, utilVars>>
    /\ pc[p] = "commit"
    /\ LET w == HostDir(p)
       IN IF w = NoDir \/ w.index = TreeOf(w.head)
          THEN /\ Finish(p, "False", PublishErrorText)
               /\ UNCHANGED <<wc, commits>>
          ELSE /\ commits' = Append(commits, [parent |-> w.head, tree |-> w.index])
               /\ wc' = [wc EXCEPT ![host[p]] = [w EXCEPT !.head = Len(commits) + 1]]
               /\ pc' = [pc EXCEPT ![p] = "push"]
               /\ UNCHANGED <<data, result, surfaced, prevFailed>>
    /\ UNCHANGED <<remoteHead, host, repo_dir, op, clonedAt, ncalls>>

\* `git -C repo_dir push`: accepted only as a fast-forward of the remote
GitPush(p) ==
    /\ UNCHANGED <<chkVars, scanVars, utilVars>>
    /\ pc[p] = "push"
    /\ LET w == HostDir(p)
       IN IF w # NoDir /\ IsAncestor(remoteHead, w.head)
          THEN /\ remoteHead' = w.head
               /\ wc' = [wc EXCEPT ![host[p]] = [w EXCEPT !.origin = w.head]]
               /\ Finish(p, "True", <<>>)
          ELSE /\ Finish(p, "False", PublishErrorText)
               /\ UNCHANGED <<remoteHead, wc>>
    /\ UNCHANGED <<commits, host, repo_dir, op, clonedAt, ncalls>>

\* `git -C repo_dir push` cannot reach the remote
GitPushNetFail(p) ==
    /\ UNCHANGED <<chkVars, scanVars, utilVars>>
    /\ pc[p] = "push"
    /\ Finish(p, "False", PublishErrorText)
    /\ UNCHANGED <<commits, remoteHead, wc, host, repo_dir, op, clonedAt, ncalls>>

Next ==
    \/ \E p \in Procs : NewManager(p)
    \/ \E p \in Procs, u \in Usernames, d \in DiscordIds, w \in Wallets, pr \in PRData :
          create_contributor(p, u, d, w, pr)
    \/ \E p \in Procs, u \in Usernames, pr \in PRData : add_pr_to_contributor(p, u, pr)
    \/ \E p \in Procs : RmTree(p)
    \/ \E p \in Procs : GitCloneOk(p)
    \/ \E p \in Procs : GitCloneFails(p)
    \/ \E p \in Procs : GitCloneHangs(p)
    \/ \E p \in Procs : Load(p)
    \/ \E p \in Procs : WriteFile(p)
    \/ \E p \in Procs : GitAdd(p)
    \/ \E p \in Procs : GitCommit(p)
    \/ \E p \in Procs : GitPush(p)
    \/ \E p \in Procs : GitPushNetFail(p)

Spec == Init /\ [][Next]_vars

\* the steps of process p's current call (not the arrival of a new call)
Step(p) ==
    \/ RmTree(p) \/ GitCloneOk(p) \/ GitCloneFails(p) \/ GitCloneHangs(p)
    \/ Load(p) \/ WriteFile(p) \/ GitAdd(p) \/ GitCommit(p)
    \/ GitPush(p) \/ GitPushNetFail(p)

\* every call that can take a step eventually takes one
FairSpec == Spec /\ \A p \in Procs : WF_vars(Step(p))

----------------------------------------------------------------------------
(* Properties of the manager *)

PublishedTree == TreeOf(remoteHead)

\* C1: of two calls that cloned the same remote head and ran concurrently,
\* at most one returns True (the other's push is rejected).
C1_AtMostOneWinner ==
    \A p, q \in Procs :
        (p # q /\ clonedAt[p] # 0 /\ clonedAt[p] = clonedAt[q]
             /\ result[p] = "True")
        => result[q] # "True"

\* C2: every published record has total_prs = len(pull_requests).
C2_CounterMatchesList ==
    \A f \in FileNames :
        PublishedTree[f] # NoFile
        => PublishedTree[f].contributor.total_prs = Len(PublishedTree[f].pull_requests)

\* C2 witness: a successful add_pr_to_contributor published a record with
\* two entries and a counter of 2.
C2_Witness ==
    \E p \in Procs :
        /\ result[p] = "True" /\ op[p].kind = "add_pr"
        /\ LET r == PublishedTree[FileOf(op[p].username)]
           IN r # NoFile /\ Len(r.pull_requests) = 2 /\ r.contributor.total_prs = 2

Contains(text, tok) == \E i \in 1..Len(text) : text[i] = tok

\* C8: no surfaced acquisition error text contains the credential.
C8_NoCredentialInError ==
    \A p \in Procs : ~Contains(surfaced[p], GistPat)

\* an unpublished write or commit sits in working copy w
Leftover(w) ==
    w # NoDir /\ (w.files # TreeOf(w.head) \/ w.index # TreeOf(w.head)
                  \/ w.head # w.origin)

\* C9: after a call that wrote locally and failed to publish, the next call
\* of that process starts to mutate a working copy without that write/commit.
C9_FreshAfterFailure ==
    \A p \in Procs :
        (prevFailed[p] /\ pc[p] \in {"load", "write"}) => ~Leftover(HostDir(p))

\* C10: every acquire eventually ends, in success or in a failure.
C10_AcquireEnds ==
    \A p \in Procs :
        (pc[p] \in {"rmtree", "clone"}) ~> (pc[p] \notin {"rmtree", "clone", "clone_hung"})

IsPrefix(s, t) == Len(s) <= Len(t) /\ SubSeq(t, 1, Len(s)) = s

\* C15: the pull_requests list of a published record only grows: every
\* step leaves each published entry in the record, at its position.
C15_ListOnlyGrows ==
    [][\A f \in FileNames :
          PublishedTree[f] # NoFile =>
              /\ PublishedTree'[f] # NoFile
              /\ IsPrefix(PublishedTree[f].pull_requests,
                          PublishedTree'[f].pull_requests)]_vars

\* the file the current call of p works on
OwnFile(p) == FileOf(op[p].username)

\* C17: from its clone to the end of its push a call works on its own
\* working copy: the checkout it made, changed by nothing but its own write
\* and commit.
C17_IsolatedWorkingCopy ==
    \A p \in Procs :
        clonedAt[p] # 0 =>
            LET w == HostDir(p)
                cloned == TreeOf(clonedAt[p])
            IN /\ pc[p] \in {"load", "write"} =>
                    w # NoDir /\ w.head = clonedAt[p] /\ w.files = cloned
               /\ pc[p] \in {"add", "commit", "push"} =>
                    w # NoDir /\ w.files = [cloned EXCEPT ![OwnFile(p)] = data[p]]
               /\ pc[p] = "push" =>
                    w # NoDir /\ commits[w.head].parent = clonedAt[p]
                    /\ TreeOf(w.head) = [cloned EXCEPT ![OwnFile(p)] = data[p]]

\* C18: the step that ends the publish part of a call either returns True,
\* and then the remote head holds the record the call wrote, or returns
\* False and leaves the remote as it was.
C18_TrueOnlyIfPublished ==
    [][\A p \in Procs :
          (pc[p] \in {"add", "commit", "push"} /\ pc'[p] = "done") =>
              IF result'[p] = "True"
              THEN /\ pc[p] = "push"
                   /\ PublishedTree'[OwnFile(p)] = data[p]
              ELSE /\ result'[p] = "False"
                   /\ remoteHead' = remoteHead]_vars

\* C19: an add_pr_to_contributor that returns True changes the published
\* record only by one entry appended at the end and the counter;
\* schema_version, the identity fields and the earlier entries stay.
C19_AppendOnly ==
    [][\A p \in Procs :
          (op[p].kind = "add_pr" /\ pc[p] = "push" /\ result'[p] = "True") =>
              LET old == PublishedTree[OwnFile(p)]
                  new == PublishedTree'[OwnFile(p)]
              IN /\ old # NoFile /\ new # NoFile
                 /\ new.pull_requests =
                        Append(old.pull_requests, PrEntry(op[p].pr_data))
                 /\ new.schema_version = old.schema_version
                 /\ new.contributor.github_username = old.contributor.github_username
                 /\ new.contributor.discord_id = old.contributor.discord_id
                 /\ new.contributor.wallet_address = old.contributor.wallet_address
                 /\ new.contributor.total_prs = Len(new.pull_requests)]_vars

\* C20: add_pr_to_contributor for a record file that is absent from the
\* checkout returns False at once: nothing is written in the working copy,
\* no commit is made and the remote is not touched.
C20_AbsentLeavesAllUnchanged ==
    [][\A p \in Procs :
          (/\ pc[p] = "load" /\ pc'[p] # "load"
           /\ (HostDir(p) = NoDir \/ HostDir(p).files[OwnFile(p)] = NoFile)) =>
              /\ pc'[p] = "done" /\ result'[p] = "False"
              /\ wc' = wc /\ commits' = commits /\ remoteHead' = remoteHead]_vars

\* C20 witness: a call of add_pr_to_contributor found no record file and
\* returned False.
C20_Witness ==
    \E p \in Procs :
        /\ pc[p] = "done" /\ op[p].kind = "add_pr" /\ result[p] = "False"
        /\ surfaced[p] = <<"Contributor file not found">>

----------------------------------------------------------------------------
(* contributor_checker.py : check_contributor_exists,                      *)
(*                          check_promotion_eligibility                    *)
(*                                                                         *)
(* CheckerSpec : one call of the checker against a registry whose record   *)
(*               file for the author is absent, malformed or a document    *)
(*               with or without the optional status / stats sections.     *)

Malformed == [malformed |-> TRUE]
EmptyDir  == [empty |-> TRUE]

Roles == {"Apprentice", "Sentinel"}
TotalPrsValues == {2, 3, 5}
AvgLinesValues == {29, 30}

\* config['promotion']
PromotionConfigs == { [min_avg_lines |-> m, threshold |-> t] : m \in {30}, t \in {3, 5} }

StatusSections ==
    { [current_role |-> r] : r \in Roles }
    \cup { [blocked |-> b] : b \in BOOLEAN }
    \cup { [blocked |-> b, current_role |-> r] : b \in BOOLEAN, r \in Roles }

StatsSections ==
    { [total_prs |-> n] : n \in TotalPrsValues }
    \cup { [avg_lines_changed |-> a] : a \in AvgLinesValues }
    \cup { [avg_lines_changed |-> a, total_prs |-> n] :
             a \in AvgLinesValues, n \in TotalPrsValues }

\* the record documents the registry may hold for the author: what
\* create_contributor writes, with or without hand-maintained sections
\* the records the manager alone produces: create_contributor, then no or
\* one add_pr_to_contributor
ManagerDocs ==
    LET created == { NewContributorData(<<"b">>, d, w, pr) :
                       d \in DiscordIds, w \in Wallets, pr \in PRData }
    IN created \cup { AppendPr(c, pr) : c \in created, pr \in PRData }

RegistryDocs ==
    LET base == ManagerDocs
    IN base
       \cup { [contributor |-> b.contributor, pull_requests |-> b.pull_requests,
               schema_version |-> b.schema_version, stats |-> ss] :
               b \in base, ss \in StatsSections }
       \cup { [contributor |-> b.contributor, pull_requests |-> b.pull_requests,
               schema_version |-> b.schema_version, status |-> st] :
               b \in base, st \in StatusSections }
       \cup { [contributor |-> b.contributor, pull_requests |-> b.pull_requests,
               schema_version |-> b.schema_version, stats |-> ss, status |-> st] :
               b \in base, ss \in StatsSections, st \in StatusSections }

\* toml_data.get(section, {}).get(key, default)
SectionGet(toml_data, section, key, default) ==
    IF section \in DOMAIN toml_data
    THEN IF key \in DOMAIN toml_data[section] THEN toml_data[section][key] ELSE default
    ELSE default

\* (mutation of Eligible: the PR count must exceed the threshold)
EligibleAboveThreshold(current_role, is_blocked, total_prs, avg_lines, threshold, min_avg_lines) ==
    /\ current_role = "Apprentice"
    /\ ~is_blocked
    /\ total_prs > threshold
    /\ avg_lines >= min_avg_lines

\* check_promotion_eligibility: `eligible = (...)`
Eligible(current_role, is_blocked, total_prs, avg_lines, threshold, min_avg_lines) ==
    /\ current_role = "Apprentice"
    /\ ~is_blocked
    /\ total_prs >= threshold
    /\ avg_lines >= min_avg_lines

\* check_promotion_eligibility: the dictionary returned for result
PromotionResult(res, config) ==
    IF ~res.exists
    THEN [eligible_for_promotion |-> FALSE, exists |-> FALSE]
    ELSE LET toml_data == res.toml_data
             current_role == SectionGet(toml_data, "status", "current_role", "Apprentice")
             is_blocked == SectionGet(toml_data, "status", "blocked", FALSE)
             total_prs == SectionGet(toml_data, "stats", "total_prs", 0)
             avg_lines == SectionGet(toml_data, "stats", "avg_lines_changed", 0)
             discord_id == SectionGet(toml_data, "discord", "user_id", "")
         IN [avg_lines |-> avg_lines,
             current_role |-> current_role,
             discord_id |-> discord_id,
             eligible_for_promotion |->
                 Eligible(current_role, is_blocked, total_prs, avg_lines,
                          config.threshold, config.min_avg_lines),
             exists |-> TRUE,
             is_blocked |-> is_blocked,
             total_prs |-> total_prs]

\* (mutation of ExitContext: the directory is removed on a normal return only)
ExitContextOnReturnOnly(dir, raised) == IF raised THEN dir ELSE NoDir

\* tempfile.TemporaryDirectory.__exit__: the directory is removed however
\* the `with` block is left
ExitContext(dir, raised) == NoDir

\* check_contributor_exists: `except Exception as e: return {...}`
ErrorResult(msg) == [error |-> msg, exists |-> FALSE]

\* check_contributor_exists / check_promotion_eligibility is called
ChkCall(a) ==
    /\ chkPc = "idle"
    /\ chkAction' = a
    /\ chkPc' = "mkdtemp"
    /\ UNCHANGED <<chkFile, chkCfg, gistDir, cloneOutcome, existsResult, promoResult>>
    /\ UNCHANGED <<mgrVars, scanVars, utilVars>>

\* `with tempfile.TemporaryDirectory(prefix=...) as gist_dir`
ChkMkTemp ==
    /\ chkPc = "mkdtemp"
    /\ gistDir' = EmptyDir
    /\ chkPc' = "clone"
    /\ UNCHANGED <<chkAction, chkFile, chkCfg, cloneOutcome, existsResult, promoResult>>
    /\ UNCHANGED <<mgrVars, scanVars, utilVars>>

\* clone_gist_repo: `git clone` succeeds within the timeout
ChkCloneOk ==
    /\ chkPc = "clone"
    /\ gistDir' = [files |-> chkFile]
    /\ cloneOutcome' = "ok"
    /\ chkPc' = "lookup"
    /\ UNCHANGED <<chkAction, chkFile, chkCfg, existsResult, promoResult>>
    /\ UNCHANGED <<mgrVars, scanVars, utilVars>>

\* clone_gist_repo: CalledProcessError -> RuntimeError, caught by
\* check_contributor_exists after the `with` block is left
ChkCloneFails ==
    /\ chkPc = "clone"
    /\ cloneOutcome' = "failed"
    /\ gistDir' = ExitContext(gistDir, TRUE)
    /\ existsResult' = ErrorResult(<<"Failed to clone gist repository">>)
    /\ chkPc' = "returned"
    /\ UNCHANGED <<chkAction, chkFile, chkCfg, promoResult>>
    /\ UNCHANGED <<mgrVars, scanVars, utilVars>>

\* clone_gist_repo: `git clone` does not exit
ChkCloneHangs ==
    /\ chkPc = "clone"
    /\ chkPc' = "clone_hung"
    /\ UNCHANGED <<chkAction, chkFile, chkCfg, gistDir, cloneOutcome, existsResult,
                   promoResult>>
    /\ UNCHANGED <<mgrVars, scanVars, utilVars>>

\* clone_gist_repo: timeout=120 expires, TimeoutExpired -> RuntimeError
ChkCloneTimeout ==
    /\ chkPc = "clone_hung"
    /\ cloneOutcome' = "timeout"
    /\ gistDir' = ExitContext(gistDir, TRUE)
    /\ existsResult' = ErrorResult(<<"Git clone operation timed out">>)
    /\ chkPc' = "returned"
    /\ UNCHANGED <<chkAction, chkFile, chkCfg, promoResult>>
    /\ UNCHANGED <<mgrVars, scanVars, utilVars>>

\* check_contributor_exists: the existence test, toml.load and the return
ChkLookup ==
    /\ chkPc = "lookup"
    /\ LET found == gistDir.files
           filepath == FileOf(<<"b">>)
       IN IF found = NoFile
          THEN /\ existsResult' = [exists |-> FALSE, filepath |-> filepath]
               /\ gistDir' = ExitContext(gistDir, FALSE)
          ELSE IF found = Malformed
          THEN /\ existsResult' = ErrorResult(<<"toml.TomlDecodeError">>)
               /\ gistDir' = ExitContext(gistDir, TRUE)
          ELSE /\ existsResult' = [exists |-> TRUE, filepath |-> filepath,
                                   toml_data |-> found]
               /\ gistDir' = ExitContext(gistDir, FALSE)
    /\ chkPc' = "returned"
    /\ UNCHANGED <<chkAction, chkFile, chkCfg, cloneOutcome, promoResult>>
    /\ UNCHANGED <<mgrVars, scanVars, utilVars>>

\* check_promotion_eligibility: everything after check_contributor_exists
ChkPromotion ==
    /\ chkPc = "returned"
    /\ chkAction = "check_promotion"
    /\ promoResult' = PromotionResult(existsResult, chkCfg)
    /\ chkPc' = "done"
    /\ UNCHANGED <<chkAction, chkFile, chkCfg, gistDir, cloneOutcome, existsResult>>
    /\ UNCHANGED <<mgrVars, scanVars, utilVars>>

CheckerInit ==
    /\ MgrOff
    /\ ScanOff
    /\ UtilOff
    /\ chkPc = "idle"
    /\ chkAction = "none"
    /\ chkFile \in {NoFile, Malformed} \cup RegistryDocs
    /\ chkCfg \in PromotionConfigs
    /\ gistDir = NoDir
    /\ cloneOutcome = "none"
    /\ existsResult = NoData
    /\ promoResult = NoData

CheckerNext ==
    \/ \E a \in {"check_exists", "check_promotion"} : ChkCall(a)
    \/ ChkMkTemp
    \/ ChkCloneOk
    \/ ChkCloneFails
    \/ ChkCloneHangs
    \/ ChkCloneTimeout
    \/ ChkLookup
    \/ ChkPromotion

CheckerSpec == CheckerInit /\ [][CheckerNext]_vars

----------------------------------------------------------------------------
(* Properties of the checker *)

\* C3: for every loaded record and threshold pair the verdict is true iff
\* the role (default Apprentice) is Apprentice, blocked (default false) is
\* false, stats.total_prs (default 0) >= threshold and
\* stats.avg_lines_changed (default 0) >= min_avg_lines; Sentinel is never
\* eligible.
C3_EligibleIff ==
    (chkPc = "done" /\ promoResult.exists) =>
        LET doc == chkFile
            hasStatus == "status" \in DOMAIN doc
            hasStats == "stats" \in DOMAIN doc
            role == IF hasStatus /\ "current_role" \in DOMAIN doc.status
                    THEN doc.status.current_role ELSE "Apprentice"
            blocked == IF hasStatus /\ "blocked" \in DOMAIN doc.status
                       THEN doc.status.blocked ELSE FALSE
            total == IF hasStats /\ "total_prs" \in DOMAIN doc.stats
                     THEN doc.stats.total_prs ELSE 0
            avg == IF hasStats /\ "avg_lines_changed" \in DOMAIN doc.stats
                   THEN doc.stats.avg_lines_changed ELSE 0
        IN /\ promoResult.eligible_for_promotion
                <=> (role = "Apprentice" /\ blocked = FALSE
                     /\ total >= chkCfg.threshold /\ avg >= chkCfg.min_avg_lines)
           /\ role = "Sentinel" => ~promoResult.eligible_for_promotion

\* C3 witness: a record without a status section, exactly at the threshold,
\* is reported eligible.
C3_Witness ==
    /\ chkPc = "done" /\ promoResult.exists
    /\ promoResult.eligible_for_promotion
    /\ "status" \notin DOMAIN chkFile
    /\ promoResult.total_prs = chkCfg.threshold

NotOnboarded(res) == ~res.exists /\ "error" \notin DOMAIN res

\* C4: check_promotion_eligibility returns the not-onboarded outcome iff
\* the checkout succeeded and the record file is absent; a failed checkout
\* gives a result that carries the failure.
C4_NotOnboardedIff ==
    chkPc = "done" =>
        (NotOnboarded(promoResult) <=> (cloneOutcome = "ok" /\ chkFile = NoFile))

\* C16: for a record that create_contributor and add_pr_to_contributor
\* produced, the total_prs check_promotion_eligibility reads, reports and
\* compares with the threshold is len(pull_requests) of that record.
C16_CheckerCountsEntries ==
    (chkPc = "done" /\ promoResult.exists /\ chkFile \in ManagerDocs) =>
        /\ promoResult.total_prs = Len(chkFile.pull_requests)
        /\ promoResult.eligible_for_promotion
              <=> Len(chkFile.pull_requests) >= chkCfg.threshold

\* C7: when check_contributor_exists has returned, its temporary working
\* copy no longer exists, on every exit path.
C7_TempDirRemoved ==
    chkPc \in {"returned", "done"} => gistDir = NoDir

\* C7 witness: the call returned through the exception path of a malformed
\* record and the directory is gone.
C7_Witness ==
    /\ chkPc = "returned"
    /\ cloneOutcome = "ok" /\ chkFile = Malformed
    /\ "error" \in DOMAIN existsResult
    /\ gistDir = NoDir

----------------------------------------------------------------------------
(* utils.py : validate_discord_id, validate_wallet_address,                *)
(*            parse_contributor_comment                                    *)
(* Python strings are sequences of one-character strings; '' is <<>>.      *)

Whitespace == {" ", "\n", "\t"}
Quotes == {"\"", "'"}
HexDigit == AsciiDigit \cup {"a", "b", "c", "d", "e", "f"}
                       \cup {"A", "B", "C", "D", "E", "F"}

\* config['onboarding']
DiscordIdMinLength == 17
DiscordIdMaxLength == 20
WalletLength == 42
WalletPrefix == <<"0", "x">>

Rep(c, n) == [i \in 1..n |-> c]

RECURSIVE LStrip(_, _)
LStrip(s, chars) ==
    IF s # <<>> /\ Head(s) \in chars THEN LStrip(Tail(s), chars) ELSE s

RECURSIVE RStrip(_, _)
RStrip(s, chars) ==
    IF s # <<>> /\ s[Len(s)] \in chars THEN RStrip(SubSeq(s, 1, Len(s) - 1), chars) ELSE s

\* str.strip() / str.strip(chars): every leading and trailing character of
\* the set is removed
Strip(s, chars) == RStrip(LStrip(s, chars), chars)

\* x.strip().strip('"').strip("'")
Unquote(s) == Strip(Strip(Strip(s, Whitespace), {"\""}), {"'"})

\* str.isdigit(): true of the decimal digits and of digits such as U+00B2
IsDigitStr(s) == s # <<>> /\ \A i \in 1..Len(s) : s[i] \in AsciiDigit \cup {"U+00B2"}

\* str.startswith(prefix)
StartsWith(s, prefix) ==
    Len(s) >= Len(prefix) /\ SubSeq(s, 1, Len(prefix)) = prefix

validate_discord_id(discord_id) ==
    IF discord_id = <<>> THEN FALSE
    ELSE LET d == Unquote(discord_id)
         IN IF ~IsDigitStr(d) THEN FALSE
            ELSE DiscordIdMinLength <= Len(d) /\ Len(d) <= DiscordIdMaxLength

\* int(text, 16) does not raise ValueError: optional surrounding whitespace,
\* sign and 0x prefix, then hex digits that single underscores may separate
ParsesAsHex(text) ==
    LET a == Strip(text, Whitespace)
        b == IF a # <<>> /\ Head(a) \in {"+", "-"} THEN Tail(a) ELSE a
        prefixed == Len(b) >= 2 /\ b[1] = "0" /\ LowerChar(b[2]) = "x"
        c == IF prefixed THEN SubSeq(b, 3, Len(b)) ELSE b
    IN /\ c # <<>>
       /\ \A i \in 1..Len(c) : c[i] \in HexDigit \cup {"_"}
       /\ c[Len(c)] # "_"
       /\ (c[1] = "_" => prefixed)
       /\ \A i \in 1..(Len(c) - 1) : ~(c[i] = "_" /\ c[i + 1] = "_")

validate_wallet_address(wallet) ==
    IF wallet = <<>> THEN FALSE
    ELSE LET w == Unquote(wallet)
         IN IF ~StartsWith(Lower(w), WalletPrefix) THEN FALSE
            ELSE IF Len(w) # WalletLength THEN FALSE
            ELSE ParsesAsHex(SubSeq(w, 3, Len(w)))

\* the literal lit (lower case) stands at position i of s, case-insensitively
LiteralAt(s, i, lit) ==
    /\ i + Len(lit) - 1 <= Len(s)
    /\ \A k \in 1..Len(lit) : LowerChar(s[i + k - 1]) = lit[k]

RECURSIVE SkipSpace(_, _)
\* \s* from position i: the first position that holds no whitespace
SkipSpace(s, i) ==
    IF i <= Len(s) /\ s[i] \in Whitespace THEN SkipSpace(s, i + 1) ELSE i

\* ["\']? at position i
SkipQuote(s, i) == IF i <= Len(s) /\ s[i] \in Quotes THEN i + 1 ELSE i

RECURSIVE RunLength(_, _, _, _)
\* number of characters of the class from position i on, at most max
RunLength(s, i, class, max) ==
    IF max > 0 /\ i <= Len(s) /\ s[i] \in class
    THEN 1 + RunLength(s, i + 1, class, max - 1)
    ELSE 0

DiscordLabel == <<"d", "i", "s", "c", "o", "r", "d", ":">>
WalletLabel == <<"w", "a", "l", "l", "e", "t", ":">>

\* group(1) of r'discord:\s*["\']?(\d{17,20})["\']?' matched at i, or <<>>
DiscordAt(s, i) ==
    IF ~LiteralAt(s, i, DiscordLabel) THEN <<>>
    ELSE LET j == SkipQuote(s, SkipSpace(s, i + Len(DiscordLabel)))
             n == RunLength(s, j, AsciiDigit, 20)
         IN IF n >= 17 THEN SubSeq(s, j, j + n - 1) ELSE <<>>

\* group(1) of r'wallet:\s*["\']?(0x[a-fA-F0-9]{40})["\']?' matched at i, or <<>>
WalletAt(s, i) ==
    IF ~LiteralAt(s, i, WalletLabel) THEN <<>>
    ELSE LET j == SkipQuote(s, SkipSpace(s, i + Len(WalletLabel)))
         IN IF LiteralAt(s, j, <<"0", "x">>) /\ RunLength(s, j + 2, HexDigit, 40) = 40
            THEN SubSeq(s, j, j + 41) ELSE <<>>

Min(S) == CHOOSE x \in S : \A y \in S : x <= y
Max(S) == CHOOSE x \in S : \A y \in S : x >= y

\* re.search(..., re.IGNORECASE): group(1) of the leftmost match, or <<>>
SearchDiscord(s) ==
    LET at == { i \in 1..Len(s) : DiscordAt(s, i) # <<>> }
    IN IF at = {} THEN <<>> ELSE DiscordAt(s, Min(at))

SearchWallet(s) ==
    LET at == { i \in 1..Len(s) : WalletAt(s, i) # <<>> }
    IN IF at = {} THEN <<>> ELSE WalletAt(s, Min(at))

NoClaim == [none |-> TRUE]

\* (mutation of parse_contributor_comment: whatever was found is returned)
ParsePartial(comment_body) ==
    LET discord_match == SearchDiscord(comment_body)
        wallet_match == SearchWallet(comment_body)
    IN IF discord_match = <<>> /\ wallet_match = <<>> THEN NoClaim
       ELSE [discord_id |-> discord_match, wallet |-> wallet_match]

parse_contributor_comment(comment_body) ==
    LET discord_match == SearchDiscord(comment_body)
        wallet_match == SearchWallet(comment_body)
    IN IF discord_match = <<>> \/ wallet_match = <<>> THEN NoClaim
       ELSE [discord_id |-> discord_match, wallet |-> wallet_match]

----------------------------------------------------------------------------
(* contributor_checker.py : check_for_response_in_pr                       *)
(*                                                                         *)
(* ScanSpec : one call over a comment thread of at most MaxComments        *)
(*            comments by the PR author (in another letter case) and by    *)
(*            another user.                                                *)

\* longest comment thread
MaxComments == 2

Digits18 == Rep("1", 18)
Hex40 == Rep("a", 20) \o Rep("F", 20)

\* discord: "<18 digits>" / wallet: "0x<40 hex>"
ClaimBody ==
    DiscordLabel \o <<" ", "\"">> \o Digits18 \o <<"\"", "\n">>
    \o WalletLabel \o <<" ", "\"">> \o <<"0", "x">> \o Hex40 \o <<"\"">>

\* prose, the wallet first, upper-case labels, no quotes
ProseClaimBody ==
    <<"o", "k", " ", "W", "A", "L", "L", "E", "T", ":", "0", "x">> \o Hex40
    \o <<" ", "D", "i", "s", "c", "o", "r", "d", ":", " ">> \o Rep("7", 17)

\* only the discord line
DiscordOnlyBody == DiscordLabel \o <<" ", "\"">> \o Digits18 \o <<"\"">>

ProseBody == <<"l", "g", "t", "m">>

Bodies == {ClaimBody, ProseClaimBody, DiscordOnlyBody, ProseBody}

PrAuthor == <<"B", "o", "b">>
Logins == { <<"b", "O", "b">>, <<"e", "v", "e">> }

\* the threads pr.get_issue_comments() may return, oldest comment first
Threads ==
    UNION { { [i \in 1..n |-> [body |-> f[i].body, id |-> 100 + i, login |-> f[i].login]] :
                f \in [1..n -> [body : Bodies, login : Logins]] } :
            n \in 0..MaxComments }

\* (mutation of Reversed: the comments are walked oldest first)
NotReversed(list) == list

\* reversed(list(comments))
Reversed(list) == [i \in 1..Len(list) |-> list[Len(list) + 1 - i]]

\* dict.get(key, default)
DictGet(dict, key, default) == IF key \in DOMAIN dict THEN dict[key] ELSE default

\* the comment is by the PR author
ByAuthor(comment, pr_author) == Lower(comment.login) = Lower(pr_author)

\* check_for_response_in_pr imports the comment parser of utils.py
parse_discord_wallet_comment(body) == parse_contributor_comment(body)

\* the dictionary returned for a comment whose body parsed to a claim
ResponseResult(comment, parsed) ==
    LET discord_valid == validate_discord_id(DictGet(parsed, "discord_id", <<>>))
        wallet_valid == validate_wallet_address(DictGet(parsed, "wallet_address", <<>>))
    IN [comment_id |-> comment.id,
        discord_id |-> DictGet(parsed, "discord_id", <<>>),
        discord_valid |-> discord_valid,
        has_response |-> TRUE,
        valid |-> discord_valid /\ wallet_valid,
        wallet_address |-> DictGet(parsed, "wallet_address", <<>>),
        wallet_valid |-> wallet_valid]

\* `comments = pr.get_issue_comments()` and the start of the loop
ScanFetchOk ==
    /\ scanPc = "start"
    /\ scanList' = Reversed(comments)
    /\ scanPos' = 1
    /\ scanPc' = "loop"
    /\ UNCHANGED <<comments, prAuthor, scanResult>>
    /\ UNCHANGED <<mgrVars, chkVars, utilVars>>

\* the API client raises: `except Exception as e`
ScanFetchFails ==
    /\ scanPc = "start"
    /\ scanResult' = [error |-> <<"GithubException">>, has_response |-> FALSE]
    /\ scanPc' = "done"
    /\ UNCHANGED <<comments, prAuthor, scanList, scanPos>>
    /\ UNCHANGED <<mgrVars, chkVars, utilVars>>

\* one iteration of `for comment in reversed(list(comments))`
ScanVisit ==
    /\ scanPc = "loop"
    /\ scanPos <= Len(scanList)
    /\ LET comment == scanList[scanPos]
           parsed == parse_discord_wallet_comment(comment.body)
       IN IF ByAuthor(comment, prAuthor) /\ parsed # NoClaim
          THEN /\ scanResult' = ResponseResult(comment, parsed)
               /\ scanPc' = "done"
               /\ UNCHANGED scanPos
          ELSE /\ scanPos' = scanPos + 1
               /\ UNCHANGED <<scanResult, scanPc>>
    /\ UNCHANGED <<comments, prAuthor, scanList>>
    /\ UNCHANGED <<mgrVars, chkVars, utilVars>>

\* the loop ends without a return: `return {'has_response': False}`
ScanExhausted ==
    /\ scanPc = "loop"
    /\ scanPos > Len(scanList)
    /\ scanResult' = [has_response |-> FALSE]
    /\ scanPc' = "done"
    /\ UNCHANGED <<comments, prAuthor, scanList, scanPos>>
    /\ UNCHANGED <<mgrVars, chkVars, utilVars>>

ScanInit ==
    /\ MgrOff
    /\ ChkOff
    /\ UtilOff
    /\ comments \in Threads
    /\ prAuthor = PrAuthor
    /\ scanPc = "start"
    /\ scanList = <<>>
    /\ scanPos = 0
    /\ scanResult = NoData

ScanNext ==
    \/ ScanFetchOk
    \/ ScanFetchFails
    \/ ScanVisit
    \/ ScanExhausted

ScanSpec == ScanInit /\ [][ScanNext]_vars

----------------------------------------------------------------------------
(* Properties of the response scanner *)

\* positions of the comments by the PR author whose body holds a claim
Qualifying ==
    { i \in 1..Len(comments) :
        /\ Lower(comments[i].login) = Lower(prAuthor)
        /\ parse_contributor_comment(comments[i].body) # NoClaim }

\* C5: the call returns the latest comment by the PR author (any letter
\* case) whose body parses to a claim, never a comment of another user, and
\* has_response = False when no comment qualifies.
C5_LatestAuthorClaim ==
    (scanPc = "done" /\ "error" \notin DOMAIN scanResult) =>
        IF Qualifying = {}
        THEN ~scanResult.has_response
        ELSE /\ scanResult.has_response
             /\ scanResult.comment_id = comments[Max(Qualifying)].id

\* C5 witness: two comments of the author qualify and the later one is
\* returned.
C5_Witness ==
    /\ scanPc = "done"
    /\ Cardinality(Qualifying) >= 2
    /\ scanResult.has_response
    /\ scanResult.comment_id = comments[Max(Qualifying)].id

\* C6: the result carries the discord id and the wallet address as the
\* parser extracted them, and each flag is the validator applied to that
\* extracted value.
C6_RawValuesAndFlags ==
    (scanPc = "done" /\ scanResult.has_response) =>
        LET src == CHOOSE i \in 1..Len(comments) : comments[i].id = scanResult.comment_id
            parsed == parse_contributor_comment(comments[src].body)
        IN /\ scanResult.discord_id = parsed.discord_id
           /\ scanResult.wallet_address = parsed.wallet
           /\ scanResult.discord_valid = validate_discord_id(parsed.discord_id)
           /\ scanResult.wallet_valid = validate_wallet_address(parsed.wallet)

----------------------------------------------------------------------------
(* utils.py called on its own                                              *)
(*                                                                         *)
(* UtilSpec : one call of sanitize_filename, validate_wallet_address,      *)
(*            validate_discord_id or parse_contributor_comment on an       *)
(*            argument drawn from the input sets below.                    *)

\* longest username
MaxNameLen == 2

NameChars == {"A", "b", "1", "-", "_", "!", "U+00C9", "U+0130", "U+00B2"}

SanitizeInputs ==
    UNION { [1..n -> NameChars] : n \in 0..MaxNameLen }

\* the call of sanitize_filename(username)
CallSanitize ==
    /\ utilPc = "ready"
    /\ utilFn = "sanitize_filename"
    /\ utilRet' = sanitize_filename(utilArg)
    /\ utilPc' = "returned"
    /\ UNCHANGED <<utilFn, utilArg>>
    /\ UNCHANGED <<mgrVars, chkVars, scanVars>>

\* C11: sanitize_filename(u) holds only characters of [a-z0-9_-] and
\* sanitizing it again changes nothing, for every username, also one with
\* letters or digits outside ASCII.
C11_SafeAndIdempotent ==
    (utilPc = "returned" /\ utilFn = "sanitize_filename") =>
        /\ \A i \in 1..Len(utilRet) :
              utilRet[i] \in AsciiLower \cup AsciiDigit \cup {"_", "-"}
        /\ sanitize_filename(utilRet) = utilRet

\* what follows the optional quoting in the arguments of the validators
WalletCores ==
    { <<>>,
      <<"0", "x">> \o Rep("a", 20) \o Rep("F", 20),
      <<"0", "X">> \o Rep("a", 40),
      <<"1", "x">> \o Rep("a", 40),
      <<"0", "x">> \o Rep("a", 39),
      <<"0", "x">> \o Rep("a", 41),
      <<"0", "x">> \o Rep("a", 39) \o <<"g">>,
      <<"0", "x", "-">> \o Rep("a", 39),
      <<"0", "x", " ">> \o Rep("a", 39),
      <<"0", "x", "0", "x">> \o Rep("a", 38),
      <<"0", "x", "a", "_">> \o Rep("a", 38),
      <<"0", "x">> \o Rep("a", 39) \o <<"_">> }

\* the ways an argument is wrapped in whitespace and quotes
WrapKinds == 1..7

Wrap(k, x) ==
    CASE k = 1 -> x
      [] k = 2 -> <<" ">> \o x \o <<"\n">>
      [] k = 3 -> <<"\"">> \o x \o <<"\"">>
      [] k = 4 -> <<" ", "'">> \o x \o <<"'", " ">>
      [] k = 5 -> <<"\"", "\"">> \o x \o <<"\"", "\"">>
      [] k = 6 -> <<"\"">> \o x
      [] k = 7 -> <<"\"", "'">> \o x \o <<"'", "\"">>

WalletInputs == { Wrap(k, c) : k \in WrapKinds, c \in WalletCores }

\* the call of validate_wallet_address(wallet)
CallValidateWallet ==
    /\ utilPc = "ready"
    /\ utilFn = "validate_wallet_address"
    /\ utilRet' = validate_wallet_address(utilArg)
    /\ utilPc' = "returned"
    /\ UNCHANGED <<utilFn, utilArg>>
    /\ UNCHANGED <<mgrVars, chkVars, scanVars>>

\* s without surrounding whitespace and without one layer of matching quotes
TrimOneLayer(s) ==
    LET t == Strip(s, Whitespace)
    IN IF Len(t) >= 2 /\ t[1] \in Quotes /\ t[Len(t)] = t[1]
       THEN SubSeq(t, 2, Len(t) - 1)
       ELSE t

\* C12: validate_wallet_address(s) is true iff s, trimmed and without one
\* layer of matching quotes, starts with the prefix in any letter case, has
\* exactly the configured length and holds only hexadecimal digits after the
\* prefix; the answer is always a boolean.
C12_WalletValidIff ==
    (utilPc = "returned" /\ utilFn = "validate_wallet_address") =>
        LET t == TrimOneLayer(utilArg)
        IN /\ utilRet \in BOOLEAN
           /\ utilRet <=>
                 (/\ StartsWith(Lower(t), WalletPrefix)
                  /\ Len(t) = WalletLength
                  /\ \A i \in (Len(WalletPrefix) + 1)..Len(t) : t[i] \in HexDigit)

DiscordCores ==
    { <<>>, Rep("1", 16), Rep("1", 17), Rep("1", 18), Rep("1", 20), Rep("1", 21),
      Rep("1", 17) \o <<"a">>, Rep("1", 9) \o <<" ">> \o Rep("1", 9),
      Rep("U+00B2", 18) }

DiscordInputs == { Wrap(k, c) : k \in WrapKinds, c \in DiscordCores }

\* the call of validate_discord_id(discord_id)
CallValidateDiscord ==
    /\ utilPc = "ready"
    /\ utilFn = "validate_discord_id"
    /\ utilRet' = validate_discord_id(utilArg)
    /\ utilPc' = "returned"
    /\ UNCHANGED <<utilFn, utilArg>>
    /\ UNCHANGED <<mgrVars, chkVars, scanVars>>

\* C13: validate_discord_id(s) is true iff s, trimmed and without a single
\* layer of matching quotes, holds only decimal digits and has a length in
\* [min, max]; unbalanced or nested quotes do not give a valid id.
C13_DiscordValidIff ==
    (utilPc = "returned" /\ utilFn = "validate_discord_id") =>
        LET t == TrimOneLayer(utilArg)
        IN utilRet <=>
              (/\ t # <<>>
               /\ \A i \in 1..Len(t) : t[i] \in AsciiDigit
               /\ DiscordIdMinLength <= Len(t) /\ Len(t) <= DiscordIdMaxLength)

\* only the wallet line
WalletOnlyBody ==
    WalletLabel \o <<" ", "\"">> \o <<"0", "x">> \o Hex40 \o <<"\"">>

\* a discord id of 16 digits, then a wallet line
ShortDiscordBody ==
    DiscordLabel \o <<" ">> \o Rep("1", 16) \o <<"\n">> \o WalletOnlyBody

\* a discord line, then a wallet of 39 hexadecimal digits
ShortWalletBody ==
    DiscordOnlyBody \o <<"\n">> \o WalletLabel \o <<" ", "0", "x">> \o Rep("a", 39)

\* both values without their labels
UnlabelledBody == Digits18 \o <<" ", "0", "x">> \o Hex40

ParseInputs ==
    Bodies \cup {<<>>, WalletOnlyBody, ShortDiscordBody, ShortWalletBody,
                 UnlabelledBody, ProseBody \o <<" ">> \o ClaimBody \o <<" ">> \o ProseBody}

\* the call of parse_contributor_comment(comment_body)
CallParse ==
    /\ utilPc = "ready"
    /\ utilFn = "parse_contributor_comment"
    /\ utilRet' = parse_contributor_comment(utilArg)
    /\ utilPc' = "returned"
    /\ UNCHANGED <<utilFn, utilArg>>
    /\ UNCHANGED <<mgrVars, chkVars, scanVars>>

UtilInit ==
    /\ MgrOff
    /\ ChkOff
    /\ ScanOff
    /\ utilPc = "ready"
    /\ \/ utilFn = "sanitize_filename" /\ utilArg \in SanitizeInputs
       \/ utilFn = "validate_wallet_address" /\ utilArg \in WalletInputs
       \/ utilFn = "validate_discord_id" /\ utilArg \in DiscordInputs
       \/ utilFn = "parse_contributor_comment" /\ utilArg \in ParseInputs
    /\ utilRet = NoData

UtilNext ==
    \/ CallSanitize
    \/ CallValidateWallet
    \/ CallValidateDiscord
    \/ CallParse

UtilSpec == UtilInit /\ [][UtilNext]_vars

\* the body holds a discord field / a wallet field somewhere
HasDiscordField(s) == \E i \in 1..Len(s) : DiscordAt(s, i) # <<>>
HasWalletField(s) == \E i \in 1..Len(s) : WalletAt(s, i) # <<>>

\* C14: parse_contributor_comment returns a claim, with both values filled,
\* exactly when a discord field and a wallet field are both found, in either
\* order and anywhere in the body; otherwise it returns no claim, never a
\* partly filled result.
C14_BothOrNothing ==
    (utilPc = "returned" /\ utilFn = "parse_contributor_comment") =>
        IF HasDiscordField(utilArg) /\ HasWalletField(utilArg)
        THEN /\ DOMAIN utilRet = {"discord_id", "wallet"}
             /\ utilRet.discord_id # <<>>
             /\ utilRet.wallet # <<>>
        ELSE utilRet = NoClaim

\* C14 witness: the body with only the discord line was parsed to no claim.
C14_Witness ==
    /\ utilPc = "returned" /\ utilFn = "parse_contributor_comment"
    /\ utilArg = DiscordOnlyBody
    /\ utilRet = NoClaim

====
